---- MODULE Spec2Model ----
\* Model of the breathing-log dashboard script (src/main.py): the rows of the
\* daily_breathing table are loaded, summed per day, reindexed on the full
\* calendar range, extended with derived columns and written to journey.html.
\* Calendar dates are day numbers; float results are exact rationals
\* [num |-> n, den |-> d].
EXTENDS Integers, Sequences, FiniteSets, TLC

VARIABLES pc, raw, daily, cumulative_minutes, cumulative_sessions,
          minutes_ma, sessions_ma, weekday_minutes, weekday_sessions,
          streaks, current_streak, row, streak,
          days_practiced, total_days, participation_pct, html

vars == <<pc, raw, daily, cumulative_minutes, cumulative_sessions,
          minutes_ma, sessions_ma, weekday_minutes, weekday_sessions,
          streaks, current_streak, row, streak,
          days_practiced, total_days, participation_pct, html>>

-----------------------------------------------------------------------------
\* Bounds of the table contents

\* most rows in the daily_breathing table
MaxRows == 2
\* dates of the rows are the day numbers 0..MaxDate; day 0 is a Saturday
MaxDate == 3
\* the total_minutes and sessions found in a row: an ordinary reading, a row
\* of zero minutes, a row of negative minutes and a row of negative sessions
Readings == {<<2, 1>>, <<0, 1>>, <<-1, 1>>, <<2, -1>>}
\* the weekday of day number d as the logger names it
WeekdayName(d) ==
    <<"Saturday", "Sunday", "Monday", "Tuesday", "Wednesday", "Thursday",
      "Friday">>[(d % 7) + 1]
\* the weekday column of a row holds the name of its date or a label that is
\* no weekday name
WeekdayLabels(d) == {WeekdayName(d), "Funday"}

RawRecord ==
    {[date |-> d, total_minutes |-> m[1], sessions |-> m[2], weekday |-> w] :
        <<d, m, w>> \in {t \in (0..MaxDate) \X Readings \X {"Saturday", "Sunday",
                              "Monday", "Tuesday", "Wednesday", "Thursday",
                              "Friday", "Funday"} : t[3] \in WeekdayLabels(t[1])}}

Tables == UNION {[1..n -> RawRecord] : n \in 0..MaxRows}

-----------------------------------------------------------------------------
\* Program constants

\* variant of weekday_order: the week starts on Sunday
weekday_order_sunday == <<"Sunday", "Monday", "Tuesday", "Wednesday", "Thursday",
                          "Friday", "Saturday">>

weekday_order == <<"Monday", "Tuesday", "Wednesday", "Thursday", "Friday",
                   "Saturday", "Sunday">>

\* rolling(3, min_periods=1)
MaWindow == 3
MaMinPeriods == 1

-----------------------------------------------------------------------------
\* pandas / numpy operations used by the script

\* the missing timestamp, min()/max() of an empty column: no day number
NaT == -1

\* rational number n/d, the model of a float result
Rat(n, d) == [num |-> n, den |-> d]

\* the float that is no number
NaN == Rat(0, 0)

\* variant of GroupSum: the group keeps its last value instead of the sum
RECURSIVE GroupSum_last(_, _, _, _, _)
GroupSum_last(frame, n, keycol, key, col) ==
    IF n = 0 THEN 0
    ELSE IF frame[n][keycol] = key THEN frame[n][col]
         ELSE GroupSum_last(frame, n - 1, keycol, key, col)

\* Series.sum of one group of a groupby: the values of column col over the
\* rows 1..n of frame whose key column has the value key, added in row order
RECURSIVE GroupSum(_, _, _, _, _)
GroupSum(frame, n, keycol, key, col) ==
    IF n = 0 THEN 0
    ELSE GroupSum(frame, n - 1, keycol, key, col)
         + (IF frame[n][keycol] = key THEN frame[n][col] ELSE 0)

\* the group keys of a groupby: the distinct values of the key column
GroupKeys(frame, keycol) == {frame[i][keycol] : i \in 1..Len(frame)}

\* the keys of a groupby in the order of its result: ascending
RECURSIVE SortedKeys(_)
SortedKeys(keys) ==
    IF keys = {} THEN <<>>
    ELSE LET least == CHOOSE k \in keys : \A e \in keys : k <= e
         IN  <<least>> \o SortedKeys(keys \ {least})

\* variant of AggregatePerDay: rows with an unknown weekday label are left out
AggregatePerDay_named(frame) ==
    LET named == SelectSeq(frame, LAMBDA r :
                     \E i \in 1..Len(weekday_order) : r.weekday = weekday_order[i])
        dates == SortedKeys(GroupKeys(named, "date"))
    IN  [i \in 1..Len(dates) |->
            [date          |-> dates[i],
             total_minutes |-> GroupSum(named, Len(named), "date", dates[i], "total_minutes"),
             sessions      |-> GroupSum(named, Len(named), "date", dates[i], "sessions")]]

\* raw.groupby(raw['date'].dt.date).agg(total_minutes=sum, sessions=sum)
\* .reset_index(): one row per date that occurs, ascending, holding the sums
AggregatePerDay(frame) ==
    LET dates == SortedKeys(GroupKeys(frame, "date"))
    IN  [i \in 1..Len(dates) |->
            [date          |-> dates[i],
             total_minutes |-> GroupSum(frame, Len(frame), "date", dates[i], "total_minutes"),
             sessions      |-> GroupSum(frame, Len(frame), "date", dates[i], "sessions")]]

\* raw.groupby('weekday')[col].sum(): one entry per weekday label that occurs
GroupByWeekday(frame, col) ==
    [w \in GroupKeys(frame, "weekday") |->
        GroupSum(frame, Len(frame), "weekday", w, col)]

\* a column of a frame as a sequence
Column(frame, col) == [i \in 1..Len(frame) |-> frame[i][col]]

\* daily['date'].min(), NaT when the frame has no row
MinDate(frame) ==
    IF frame = <<>> THEN NaT
    ELSE LET dates == {frame[i].date : i \in 1..Len(frame)}
         IN  CHOOSE d \in dates : \A e \in dates : d <= e

\* daily['date'].max(), NaT when the frame has no row
MaxDateOf(frame) ==
    IF frame = <<>> THEN NaT
    ELSE LET dates == {frame[i].date : i \in 1..Len(frame)}
         IN  CHOOSE d \in dates : \A e \in dates : d >= e

\* variant of DateRangeFails: an empty range is accepted
DateRangeFails_never(start, end) == FALSE

\* pd.date_range raises ValueError when start or end is NaT
DateRangeFails(start, end) == start = NaT \/ end = NaT

\* variant of DateRange: the end date is left out
DateRange_open(start, end) == [i \in 1..(end - start) |-> start + (i - 1)]

\* pd.date_range(start, end): every day from start to end, both included
DateRange(start, end) == [i \in 1..(end - start + 1) |-> start + (i - 1)]

\* .reindex(labels, fill_value=fill): one entry per label, in the order of
\* labels; the entry of the series when it has the label, fill otherwise;
\* labels of the series that are not in labels are dropped
Reindex(series, labels, fill) ==
    [i \in 1..Len(labels) |->
        IF labels[i] \in DOMAIN series THEN series[labels[i]] ELSE fill]

\* .set_index('date'): the total_minutes and sessions of each row, by its date
SetIndex(frame) ==
    [d \in {frame[i].date : i \in 1..Len(frame)} |->
        LET r == frame[CHOOSE i \in 1..Len(frame) : frame[i].date = d]
        IN  [total_minutes |-> r.total_minutes, sessions |-> r.sessions]]

\* daily.set_index('date').reindex(all_dates, fill_value=0).rename_axis('date')
\* .reset_index(): one row per date of all_dates, zeros where daily has none
Densify(frame, all_dates) ==
    LET filled == Reindex(SetIndex(frame), all_dates,
                          [total_minutes |-> 0, sessions |-> 0])
    IN  [i \in 1..Len(all_dates) |->
            [date          |-> all_dates[i],
             total_minutes |-> filled[i].total_minutes,
             sessions      |-> filled[i].sessions]]

\* Series.cumsum: running total, the row's own value included
RECURSIVE Cumsum(_)
Cumsum(s) ==
    IF s = <<>> THEN <<>>
    ELSE LET front == Cumsum(SubSeq(s, 1, Len(s) - 1))
             before == IF front = <<>> THEN 0 ELSE front[Len(front)]
         IN  Append(front, before + s[Len(s)])

\* the rolling window after row i: the running sum and the number of
\* observations, each new row added and the row leaving the window removed
RECURSIVE RollingState(_, _, _)
RollingState(s, i, window) ==
    IF i = 0 THEN [sum_x |-> 0, nobs |-> 0]
    ELSE LET prev  == RollingState(s, i - 1, window)
             added == [sum_x |-> prev.sum_x + s[i], nobs |-> prev.nobs + 1]
         IN  IF i > window
             THEN [sum_x |-> added.sum_x - s[i - window], nobs |-> added.nobs - 1]
             ELSE added

\* variant of RollingMean: the window is padded with zeros to its full size
RollingMean_padded(s, window, min_periods) ==
    [i \in 1..Len(s) |-> Rat(RollingState(s, i, window).sum_x, window)]

\* Series.rolling(window, min_periods).mean(): sum_x / nobs of the window,
\* NaN while the window holds fewer than min_periods rows
RollingMean(s, window, min_periods) ==
    [i \in 1..Len(s) |->
        LET st == RollingState(s, i, window)
        IN  IF st.nobs >= min_periods THEN Rat(st.sum_x, st.nobs) ELSE NaN]

\* variant of CountPracticed: days of zero minutes count as practiced
CountPracticed_nonneg(s) == Cardinality({i \in 1..Len(s) : s[i] >= 0})

\* (daily['total_minutes'] > 0).sum()
CountPracticed(s) == Cardinality({i \in 1..Len(s) : s[i] > 0})

-----------------------------------------------------------------------------
\* The script, one action per block

Init ==
    /\ raw \in Tables
    /\ pc = "aggregate"
    /\ daily = <<>>
    /\ cumulative_minutes = <<>>
    /\ cumulative_sessions = <<>>
    /\ minutes_ma = <<>>
    /\ sessions_ma = <<>>
    /\ weekday_minutes = <<>>
    /\ weekday_sessions = <<>>
    /\ streaks = <<>>
    /\ current_streak = 0
    /\ row = 0
    /\ streak = <<>>
    /\ days_practiced = 0
    /\ total_days = 0
    /\ participation_pct = Rat(0, 1)
    /\ html = "absent"

\* lines 17-20: daily = raw.groupby(date).agg(...).reset_index()
Aggregate ==
    /\ pc = "aggregate"
    /\ daily' = AggregatePerDay(raw)
    /\ pc' = "fill"
    /\ UNCHANGED <<raw, cumulative_minutes, cumulative_sessions, minutes_ma,
                   sessions_ma, weekday_minutes, weekday_sessions, streaks,
                   current_streak, row, streak, days_practiced, total_days,
                   participation_pct, html>>

\* lines 23-25: date_range over min..max, then reindex with fill_value=0
FillMissingDays ==
    /\ pc = "fill"
    /\ ~DateRangeFails(MinDate(daily), MaxDateOf(daily))
    /\ daily' = Densify(daily, DateRange(MinDate(daily), MaxDateOf(daily)))
    /\ pc' = "cumulative"
    /\ UNCHANGED <<raw, cumulative_minutes, cumulative_sessions, minutes_ma,
                   sessions_ma, weekday_minutes, weekday_sessions, streaks,
                   current_streak, row, streak, days_practiced, total_days,
                   participation_pct, html>>

\* line 23 raising: the script ends with a traceback
FillMissingDaysRaises ==
    /\ pc = "fill"
    /\ DateRangeFails(MinDate(daily), MaxDateOf(daily))
    /\ pc' = "raised"
    /\ UNCHANGED <<raw, daily, cumulative_minutes, cumulative_sessions,
                   minutes_ma, sessions_ma, weekday_minutes, weekday_sessions,
                   streaks, current_streak, row, streak, days_practiced,
                   total_days, participation_pct, html>>

\* lines 29-30
CumulativeSums ==
    /\ pc = "cumulative"
    /\ cumulative_minutes' = Cumsum(Column(daily, "total_minutes"))
    /\ cumulative_sessions' = Cumsum(Column(daily, "sessions"))
    /\ pc' = "moving_average"
    /\ UNCHANGED <<raw, daily, minutes_ma, sessions_ma, weekday_minutes,
                   weekday_sessions, streaks, current_streak, row, streak,
                   days_practiced, total_days, participation_pct, html>>

\* lines 33-34
MovingAverage ==
    /\ pc = "moving_average"
    /\ minutes_ma' = RollingMean(Column(daily, "total_minutes"), MaWindow, MaMinPeriods)
    /\ sessions_ma' = RollingMean(Column(daily, "sessions"), MaWindow, MaMinPeriods)
    /\ pc' = "weekday"
    /\ UNCHANGED <<raw, daily, cumulative_minutes, cumulative_sessions,
                   weekday_minutes, weekday_sessions, streaks, current_streak,
                   row, streak, days_practiced, total_days, participation_pct,
                   html>>

\* lines 162-163
WeekdayAggregation ==
    /\ pc = "weekday"
    /\ weekday_minutes' = Reindex(GroupByWeekday(raw, "total_minutes"), weekday_order, 0)
    /\ weekday_sessions' = Reindex(GroupByWeekday(raw, "sessions"), weekday_order, 0)
    /\ pc' = "streak"
    /\ UNCHANGED <<raw, daily, cumulative_minutes, cumulative_sessions,
                   minutes_ma, sessions_ma, streaks, current_streak, row,
                   streak, days_practiced, total_days, participation_pct, html>>

\* lines 232-235: the streak after a day with the given minutes
NextStreak(current, minutes) == IF minutes > 0 THEN current + 1 ELSE 0

\* lines 231-236: one iteration of the loop over daily['total_minutes']
StreakLoop ==
    /\ pc = "streak"
    /\ row < Len(daily)
    /\ row' = row + 1
    /\ current_streak' = NextStreak(current_streak, daily[row + 1].total_minutes)
    /\ streaks' = Append(streaks, current_streak')
    /\ UNCHANGED <<pc, raw, daily, cumulative_minutes, cumulative_sessions,
                   minutes_ma, sessions_ma, weekday_minutes, weekday_sessions,
                   streak, days_practiced, total_days, participation_pct, html>>

\* line 237: daily['streak'] = streaks, after the loop
StreakColumn ==
    /\ pc = "streak"
    /\ row = Len(daily)
    /\ streak' = streaks
    /\ pc' = "participation"
    /\ UNCHANGED <<raw, daily, cumulative_minutes, cumulative_sessions,
                   minutes_ma, sessions_ma, weekday_minutes, weekday_sessions,
                   streaks, current_streak, row, days_practiced, total_days,
                   participation_pct, html>>

\* lines 250-252 and again lines 275-277: (days_practiced / total_days) * 100
ParticipationPct(practiced, total) == Rat(practiced * 100, total)

\* lines 250-252
ParticipationKPI ==
    /\ pc = "participation"
    /\ days_practiced' = CountPracticed(Column(daily, "total_minutes"))
    /\ total_days' = Len(daily)
    /\ participation_pct' = ParticipationPct(days_practiced', total_days')
    /\ pc' = "kpis"
    /\ UNCHANGED <<raw, daily, cumulative_minutes, cumulative_sessions,
                   minutes_ma, sessions_ma, weekday_minutes, weekday_sessions,
                   streaks, current_streak, row, streak, html>>

\* lines 275-277: the KPIs computed a second time
RecomputeKPIs ==
    /\ pc = "kpis"
    /\ days_practiced' = CountPracticed(Column(daily, "total_minutes"))
    /\ total_days' = Len(daily)
    /\ participation_pct' = ParticipationPct(days_practiced', total_days')
    /\ pc' = "write_head"
    /\ UNCHANGED <<raw, daily, cumulative_minutes, cumulative_sessions,
                   minutes_ma, sessions_ma, weekday_minutes, weekday_sessions,
                   streaks, current_streak, row, streak, html>>

\* lines 279-312: journey.html opened for writing, the first head written
WriteHead ==
    /\ pc = "write_head"
    /\ html' = "head"
    /\ pc' = "write_dashboard"
    /\ UNCHANGED <<raw, daily, cumulative_minutes, cumulative_sessions,
                   minutes_ma, sessions_ma, weekday_minutes, weekday_sessions,
                   streaks, current_streak, row, streak, days_practiced,
                   total_days, participation_pct>>

\* lines 314-460: journey.html truncated and the dashboard written
WriteDashboard ==
    /\ pc = "write_dashboard"
    /\ html' = "dashboard"
    /\ pc' = "done"
    /\ UNCHANGED <<raw, daily, cumulative_minutes, cumulative_sessions,
                   minutes_ma, sessions_ma, weekday_minutes, weekday_sessions,
                   streaks, current_streak, row, streak, days_practiced,
                   total_days, participation_pct>>

Next ==
    \/ Aggregate
    \/ FillMissingDays
    \/ FillMissingDaysRaises
    \/ CumulativeSums
    \/ MovingAverage
    \/ WeekdayAggregation
    \/ StreakLoop
    \/ StreakColumn
    \/ ParticipationKPI
    \/ RecomputeKPIs
    \/ WriteHead
    \/ WriteDashboard

Spec == Init /\ [][Next]_vars

-----------------------------------------------------------------------------
\* Reference definitions used to state the properties

\* the blocks of the script in program order
Blocks == <<"aggregate", "fill", "cumulative", "moving_average", "weekday",
            "streak", "participation", "kpis", "write_head",
            "write_dashboard", "done">>

\* the position of block b in the script
Rank(b) == CHOOSE i \in 1..Len(Blocks) : Blocks[i] = b

\* the script has completed the block named b
Past(b) == pc # "raised" /\ Rank(pc) > Rank(b)

\* sum of the entries of s at the indexes in I, in no particular order
RECURSIVE SumAt(_, _)
SumAt(s, I) ==
    IF I = {} THEN 0
    ELSE LET i == CHOOSE k \in I : TRUE IN s[i] + SumAt(s, I \ {i})

RawMinutes == Column(raw, "total_minutes")
RawSessions == Column(raw, "sessions")
DayMinutes == Column(daily, "total_minutes")
DaySessions == Column(daily, "sessions")

RawDates == {raw[k].date : k \in 1..Len(raw)}
FirstDate == CHOOSE d \in RawDates : \A e \in RawDates : d <= e
LastDate == CHOOSE d \in RawDates : \A e \in RawDates : d >= e

\* the rows of raw dated d
RowsOn(d) == {k \in 1..Len(raw) : raw[k].date = d}

\* the rows of raw labelled with weekday w
RowsLabelled(w) == {k \in 1..Len(raw) : raw[k].weekday = w}

\* the seven weekday names
Week == <<"Monday", "Tuesday", "Wednesday", "Thursday", "Friday",
          "Saturday", "Sunday">>
WeekNames == {Week[i] : i \in 1..7}

\* raw with its rows in the order given by the permutation p
Permuted(p) == [k \in 1..Len(raw) |-> raw[p[k]]]
RowOrders == {p \in [1..Len(raw) -> 1..Len(raw)] :
                    \A a, b \in 1..Len(raw) : p[a] = p[b] => a = b}

\* the dense daily table computed from a table t
DenseOf(t) ==
    LET agg == AggregatePerDay(t)
    IN  Densify(agg, DateRange(MinDate(agg), MaxDateOf(agg)))

\* some row of raw has negative minutes or negative sessions
HasNegative ==
    \E k \in 1..Len(raw) : raw[k].total_minutes < 0 \/ raw[k].sessions < 0

-----------------------------------------------------------------------------
\* C1: for a non-empty table the dense daily table has one row per calendar
\* date from the earliest to the latest date of raw, LastDate - FirstDate + 1
\* rows, in strictly increasing order without gap or duplicate.
C1_DenseRange ==
    Past("fill") =>
        /\ raw # <<>>
        /\ Len(daily) = LastDate - FirstDate + 1
        /\ \A i \in 1..Len(daily) : daily[i].date = FirstDate + (i - 1)
        /\ \A i \in 1..(Len(daily) - 1) : daily[i + 1].date = daily[i].date + 1

\* C1 witness: two rows MaxDate days apart give MaxDate + 1 daily rows
C1_Witness ==
    /\ Past("fill")
    /\ Len(raw) = 2
    /\ Len(daily) = 4
    /\ daily[2].total_minutes = 0

\* C2: every row of the dense table holds the sum of the minutes and the sum
\* of the sessions of the raw rows of its date, 0 when there is none, and the
\* table the densification has produced is the same for every order of the
\* raw rows.
C2_DailySums ==
    /\ Past("fill") =>
          \A i \in 1..Len(daily) :
             /\ daily[i].total_minutes = SumAt(RawMinutes, RowsOn(daily[i].date))
             /\ daily[i].sessions = SumAt(RawSessions, RowsOn(daily[i].date))
    /\ pc = "cumulative" =>
          \A p \in RowOrders : DenseOf(Permuted(p)) = daily

\* C2 witness: two raw rows share a date, their sums are in its row
C2_Witness ==
    /\ Past("fill")
    /\ Len(raw) = 2
    /\ raw[1].date = raw[2].date
    /\ raw[1].weekday = raw[2].weekday
    /\ Len(daily) = 1
    /\ daily[1].total_minutes = 4
    /\ daily[1].sessions = 2

\* C3: streak[i] is 0 when total_minutes[i] is 0 and streak[i-1] + 1
\* otherwise (1 on the first row).
C3_StreakRecurrence ==
    Past("streak") =>
        /\ Len(streak) = Len(daily)
        /\ \A i \in 1..Len(daily) :
              streak[i] = IF daily[i].total_minutes = 0 THEN 0
                          ELSE (IF i = 1 THEN 0 ELSE streak[i - 1]) + 1

\* C4: cumulative_minutes[i] and cumulative_sessions[i] are the sums of rows
\* 1..i; both columns are non-decreasing and end at the grand totals.
C4_CumulativeSums ==
    Past("cumulative") =>
        /\ Len(cumulative_minutes) = Len(daily)
        /\ Len(cumulative_sessions) = Len(daily)
        /\ \A i \in 1..Len(daily) :
              /\ cumulative_minutes[i] = SumAt(DayMinutes, 1..i)
              /\ cumulative_sessions[i] = SumAt(DaySessions, 1..i)
        /\ \A i \in 1..(Len(daily) - 1) :
              /\ cumulative_minutes[i] <= cumulative_minutes[i + 1]
              /\ cumulative_sessions[i] <= cumulative_sessions[i + 1]
        /\ cumulative_minutes[Len(daily)] = SumAt(DayMinutes, 1..Len(daily))
        /\ cumulative_sessions[Len(daily)] = SumAt(DaySessions, 1..Len(daily))

\* the mean m is the sum of s over the rows max(1, i-2)..i divided by their number
IsWindowMean(m, s, i) ==
    LET lo == IF i > 2 THEN i - 2 ELSE 1
        n  == i - lo + 1
    IN  /\ m.den > 0
        /\ n * m.num = m.den * SumAt(s, lo..i)

\* C5: minutes_ma[i] and sessions_ma[i] are the arithmetic means over the
\* rows max(1, i-2)..i: one row, then two, then three, never padded with
\* zeros and never undefined.
C5_MovingAverage ==
    Past("moving_average") =>
        /\ Len(minutes_ma) = Len(daily)
        /\ Len(sessions_ma) = Len(daily)
        /\ \A i \in 1..Len(daily) :
              /\ IsWindowMean(minutes_ma[i], DayMinutes, i)
              /\ IsWindowMean(sessions_ma[i], DaySessions, i)

\* C5 witness: four rows, the first has left the window of the fourth
C5_Witness ==
    /\ Past("moving_average")
    /\ Len(daily) = 4
    /\ daily[1].total_minutes = 2
    /\ daily[4].total_minutes = 2
    /\ minutes_ma[1] = Rat(2, 1)
    /\ minutes_ma[2] = Rat(2, 2)
    /\ minutes_ma[4] = Rat(2, 3)

\* C6: the weekday aggregate has seven rows, Monday to Sunday; each holds the
\* sums over the raw rows labelled with that weekday, 0 when there is none;
\* when every raw row has one of the seven names the seven total_minutes add
\* up to the minutes of all raw rows.
C6_WeekdayAggregate ==
    Past("weekday") =>
        /\ Len(weekday_minutes) = 7
        /\ Len(weekday_sessions) = 7
        /\ \A i \in 1..7 :
              /\ weekday_minutes[i] = SumAt(RawMinutes, RowsLabelled(Week[i]))
              /\ weekday_sessions[i] = SumAt(RawSessions, RowsLabelled(Week[i]))
        /\ (\A k \in 1..Len(raw) : raw[k].weekday \in WeekNames) =>
              SumAt(weekday_minutes, 1..7) = SumAt(RawMinutes, 1..Len(raw))

\* C6 witness: a Sunday row of zero minutes listed before a Monday row, the
\* other five weekdays are 0
C6_Witness ==
    /\ Past("weekday")
    /\ Len(raw) = 2
    /\ raw[1].weekday = "Sunday"
    /\ raw[2].weekday = "Monday"
    /\ weekday_minutes = <<2, 0, 0, 0, 0, 0, 0>>
    /\ weekday_sessions = <<1, 0, 0, 0, 0, 0, 1>>

\* C7: days_practiced is the number of dense rows with total_minutes > 0,
\* total_days the number of dense rows, participation_pct is
\* 100 * days_practiced / total_days and lies in [0, 100].
C7_Participation ==
    Past("participation") =>
        /\ days_practiced = Cardinality({i \in 1..Len(daily) : daily[i].total_minutes > 0})
        /\ total_days = Len(daily)
        /\ total_days > 0
        /\ participation_pct.den > 0
        /\ participation_pct.num * total_days
               = 100 * days_practiced * participation_pct.den
        /\ 0 <= participation_pct.num
        /\ participation_pct.num <= 100 * participation_pct.den

\* C7 witness: practice on the first and the last of four days, 50 per cent
C7_Witness ==
    /\ pc = "done"
    /\ days_practiced = 2
    /\ total_days = 4
    /\ participation_pct.num = 50 * participation_pct.den

\* C8: with no raw row the script fails before a daily row, a derived metric
\* or any report output exists, and it never goes on with an empty range.
C8_EmptySource ==
    raw = <<>> =>
        /\ pc \in {"aggregate", "fill", "raised"}
        /\ daily = <<>>
        /\ cumulative_minutes = <<>> /\ cumulative_sessions = <<>>
        /\ minutes_ma = <<>> /\ sessions_ma = <<>>
        /\ weekday_minutes = <<>> /\ weekday_sessions = <<>>
        /\ streak = <<>>
        /\ html = "absent"

\* C8 witness: the empty table has made the script raise
C8_Witness == raw = <<>> /\ pc = "raised"

\* C9: a raw row with negative minutes or negative sessions makes the script
\* fail before any aggregation; the value never reaches the daily totals.
C9_NegativeRejected ==
    HasNegative => /\ pc \in {"aggregate", "raised"}
                   /\ daily = <<>>

\* raw without the rows whose weekday is none of the seven names
NamedRows == SelectSeq(raw, LAMBDA r : r.weekday \in WeekNames)

\* C10: a raw row whose weekday is none of the seven names adds nothing to
\* the weekday aggregate (the aggregate is that of raw without such rows),
\* and its minutes and sessions are in the daily totals of its date.
C10_InvalidWeekday ==
    Past("weekday") =>
        /\ weekday_minutes = Reindex(GroupByWeekday(NamedRows, "total_minutes"), Week, 0)
        /\ weekday_sessions = Reindex(GroupByWeekday(NamedRows, "sessions"), Week, 0)
        /\ \A k \in 1..Len(raw) : raw[k].weekday \notin WeekNames =>
              \E i \in 1..Len(daily) :
                 /\ daily[i].date = raw[k].date
                 /\ daily[i].total_minutes = SumAt(RawMinutes, RowsOn(raw[k].date))
                 /\ daily[i].sessions = SumAt(RawSessions, RowsOn(raw[k].date))

\* C10 witness: a "Funday" row next to a Monday row of the same date
C10_Witness ==
    /\ pc = "done"
    /\ Len(raw) = 2
    /\ raw[1].weekday = "Funday" /\ raw[1].total_minutes = 2
    /\ raw[2].weekday = "Monday" /\ raw[2].total_minutes = 2
    /\ raw[1].date = raw[2].date
    /\ weekday_minutes = <<2, 0, 0, 0, 0, 0, 0>>
    /\ daily[1].total_minutes = 4

====
